---- MODULE Spec2Model ----
(***************************************************************************)
(* A model of src/buffer_overflow_detector.py: the BufferOverflowDetector  *)
(* (one operator per check method, one action per call of it) and the      *)
(* handlers of BufferOverflowDetectorGUI that feed it parsed text.         *)
(*                                                                         *)
(* Representation of Python values                                         *)
(*   str / list      a record [sized, items]; sized = FALSE is an object   *)
(*                   on which len() raises TypeError                       *)
(*   int / float     a record [cls, neg, mag]: mag is the magnitude as a   *)
(*                   tuple of decimal digits, most significant first,      *)
(*                   without leading zeros (Python ints are unbounded, so  *)
(*                   no machine width is imposed); cls is "int", "float"   *)
(*                   (finite), "inf", "nan" or "obj" (not a number)        *)
(*   f-string        a tuple of strings, one per literal piece and one per *)
(*                   formatted value; "" is the empty tuple                *)
(*   dict            a record                                              *)
(*   percent figures tenths of a percent (psutil rounds to one decimal)    *)
(***************************************************************************)
EXTENDS Integers, Sequences, FiniteSets, TLC

VARIABLES detector, call, outcome, result, handler, results_text, dialog,
          packed, selected

vars == <<detector, call, outcome, result, handler, results_text, dialog,
          packed, selected>>

(***************************************************************************)
(* Bounds of the model.                                                    *)
(***************************************************************************)
MaxLen == 3
MaxRows == 2
MaxCols == 2
MaxLog == 2
MaxDrives == 2

(***************************************************************************)
(* Python numbers.                                                         *)
(***************************************************************************)
Digits == 0..9

PyInt(neg, mag) == [cls |-> "int", neg |-> neg /\ mag # <<>>, mag |-> mag]
PyFloat(neg, mag) == [cls |-> "float", neg |-> neg, mag |-> mag]
PyInf(neg) == [cls |-> "inf", neg |-> neg, mag |-> <<>>]
PyNaN == [cls |-> "nan", neg |-> FALSE, mag |-> <<>>]
PyObj == [cls |-> "obj", neg |-> FALSE, mag |-> <<>>]

SetMin(S) == CHOOSE x \in S : \A y \in S : x <= y
SetMax(S) == 0 - SetMin({0 - x : x \in S})

\* the first and the last place of a tuple that holds something other than
\* x, 0 when there is none
FirstOther(m, x) ==
    LET others == {i \in 1..Len(m) : m[i] # x}
    IN  IF others = {} THEN 0 ELSE SetMin(others)

LastOther(m, x) ==
    LET others == {i \in 1..Len(m) : m[i] # x}
    IN  IF others = {} THEN 0 ELSE SetMax(others)

\* the first place where two tuples of one length differ, 0 when they are equal
FirstDifference(m1, m2) ==
    LET differ == {i \in 1..Len(m1) : m1[i] # m2[i]}
    IN  IF differ = {} THEN 0 ELSE SetMin(differ)

\* m1 < m2 for two magnitudes without leading zeros
MagLess(m1, m2) ==
    \/ Len(m1) < Len(m2)
    \/ /\ Len(m1) = Len(m2)
       /\ LET d == FirstDifference(m1, m2)
          IN  d # 0 /\ m1[d] < m2[d]

StripZeros(m) ==
    LET p == FirstOther(m, 0)
    IN  IF p = 0 THEN <<>> ELSE SubSeq(m, p, Len(m))

\* m + 1
MagIncr(m) ==
    LET p == LastOther(m, 9)
    IN  IF p = 0 THEN <<1>> \o [i \in 1..Len(m) |-> 0]
        ELSE [i \in 1..Len(m) |->
                IF i < p THEN m[i] ELSE IF i = p THEN m[i] + 1 ELSE 0]

\* m - 1, for m > 0
MagDecr(m) ==
    LET p == LastOther(m, 0)
    IN  StripZeros([i \in 1..Len(m) |->
                      IF i < p THEN m[i] ELSE IF i = p THEN m[i] - 1 ELSE 9])

\* m * 10^e
MagShift(m, e) == IF m = <<>> THEN <<>> ELSE m \o [i \in 1..e |-> 0]

\* unary minus of an int or a float
NumNeg(a) ==
    IF a.cls = "int" THEN PyInt(~a.neg, a.mag)
    ELSE [a EXCEPT !.neg = ~a.neg]

\* a - 1 and a + 1 for an int a
IntPred(a) ==
    IF a.mag = <<>> THEN PyInt(TRUE, <<1>>)
    ELSE IF a.neg THEN PyInt(TRUE, MagIncr(a.mag))
    ELSE PyInt(FALSE, MagDecr(a.mag))

IntSucc(a) == NumNeg(IntPred(NumNeg(a)))

IsNumber(a) == a.cls \in {"int", "float", "inf", "nan"}

Negative(a) == a.neg /\ (a.cls = "inf" \/ a.mag # <<>>)

AbsLess(a, b) ==
    /\ a.cls # "inf"
    /\ b.cls = "inf" \/ MagLess(a.mag, b.mag)

\* Python's a < b on two numbers: exact between int and float, and false
\* whenever an operand is a NaN
NumLess(a, b) ==
    /\ a.cls # "nan"
    /\ b.cls # "nan"
    /\ IF Negative(a) # Negative(b) THEN Negative(a)
       ELSE IF Negative(a) THEN AbsLess(b, a)
       ELSE AbsLess(a, b)

NumGreater(a, b) == NumLess(b, a)

(***************************************************************************)
(* The limits of the runtime.                                              *)
(***************************************************************************)
\* sys.maxsize of a 64-bit build, 2^63 - 1
sys_maxsize_digits ==
    <<
       9, 2, 2, 3, 3, 7, 2, 0, 3, 6, 8, 5, 4, 7, 7, 5, 8, 0, 7
    >>

\* sys.float_info.max, (2^53 - 1) * 2^971, the largest finite double
float_info_max_digits ==
    <<
       1, 7, 9, 7, 6, 9, 3, 1, 3, 4, 8, 6, 2, 3, 1, 5, 7, 0, 8, 1, 4, 5, 2, 7, 4, 2, 3, 7, 3, 1,
       7, 0, 4, 3, 5, 6, 7, 9, 8, 0, 7, 0, 5, 6, 7, 5, 2, 5, 8, 4, 4, 9, 9, 6, 5, 9, 8, 9, 1, 7,
       4, 7, 6, 8, 0, 3, 1, 5, 7, 2, 6, 0, 7, 8, 0, 0, 2, 8, 5, 3, 8, 7, 6, 0, 5, 8, 9, 5, 5, 8,
       6, 3, 2, 7, 6, 6, 8, 7, 8, 1, 7, 1, 5, 4, 0, 4, 5, 8, 9, 5, 3, 5, 1, 4, 3, 8, 2, 4, 6, 4,
       2, 3, 4, 3, 2, 1, 3, 2, 6, 8, 8, 9, 4, 6, 4, 1, 8, 2, 7, 6, 8, 4, 6, 7, 5, 4, 6, 7, 0, 3,
       5, 3, 7, 5, 1, 6, 9, 8, 6, 0, 4, 9, 9, 1, 0, 5, 7, 6, 5, 5, 1, 2, 8, 2, 0, 7, 6, 2, 4, 5,
       4, 9, 0, 0, 9, 0, 3, 8, 9, 3, 2, 8, 9, 4, 4, 0, 7, 5, 8, 6, 8, 5, 0, 8, 4, 5, 5, 1, 3, 3,
       9, 4, 2, 3, 0, 4, 5, 8, 3, 2, 3, 6, 9, 0, 3, 2, 2, 2, 9, 4, 8, 1, 6, 5, 8, 0, 8, 5, 5, 9,
       3, 3, 2, 1, 2, 3, 3, 4, 8, 2, 7, 4, 7, 9, 7, 8, 2, 6, 2, 0, 4, 1, 4, 4, 7, 2, 3, 1, 6, 8,
       7, 3, 8, 1, 7, 7, 1, 8, 0, 9, 1, 9, 2, 9, 9, 8, 8, 1, 2, 5, 0, 4, 0, 4, 0, 2, 6, 1, 8, 4,
       1, 2, 4, 8, 5, 8, 3, 6, 8
    >>

\* 2^1024 - 2^970: a decimal of at least this magnitude rounds to an infinity
\* (round-half-even), one below it and above float_info_max rounds to float_info_max
float_round_limit_digits ==
    <<
       1, 7, 9, 7, 6, 9, 3, 1, 3, 4, 8, 6, 2, 3, 1, 5, 8, 0, 7, 9, 3, 7, 2, 8, 9, 7, 1, 4, 0, 5,
       3, 0, 3, 4, 1, 5, 0, 7, 9, 9, 3, 4, 1, 3, 2, 7, 1, 0, 0, 3, 7, 8, 2, 6, 9, 3, 6, 1, 7, 3,
       7, 7, 8, 9, 8, 0, 4, 4, 4, 9, 6, 8, 2, 9, 2, 7, 6, 4, 7, 5, 0, 9, 4, 6, 6, 4, 9, 0, 1, 7,
       9, 7, 7, 5, 8, 7, 2, 0, 7, 0, 9, 6, 3, 3, 0, 2, 8, 6, 4, 1, 6, 6, 9, 2, 8, 8, 7, 9, 1, 0,
       9, 4, 6, 5, 5, 5, 5, 4, 7, 8, 5, 1, 9, 4, 0, 4, 0, 2, 6, 3, 0, 6, 5, 7, 4, 8, 8, 6, 7, 1,
       5, 0, 5, 8, 2, 0, 6, 8, 1, 9, 0, 8, 9, 0, 2, 0, 0, 0, 7, 0, 8, 3, 8, 3, 6, 7, 6, 2, 7, 3,
       8, 5, 4, 8, 4, 5, 8, 1, 7, 7, 1, 1, 5, 3, 1, 7, 6, 4, 4, 7, 5, 7, 3, 0, 2, 7, 0, 0, 6, 9,
       8, 5, 5, 5, 7, 1, 3, 6, 6, 9, 5, 9, 6, 2, 2, 8, 4, 2, 9, 1, 4, 8, 1, 9, 8, 6, 0, 8, 3, 4,
       9, 3, 6, 4, 7, 5, 2, 9, 2, 7, 1, 9, 0, 7, 4, 1, 6, 8, 4, 4, 4, 3, 6, 5, 5, 1, 0, 7, 0, 4,
       3, 4, 2, 7, 1, 1, 5, 5, 9, 6, 9, 9, 5, 0, 8, 0, 9, 3, 0, 4, 2, 8, 8, 0, 1, 7, 7, 9, 0, 4,
       1, 7, 4, 4, 9, 7, 7, 9, 2
    >>

sys_maxsize == PyInt(FALSE, sys_maxsize_digits)
sys_float_info_max == PyFloat(FALSE, float_info_max_digits)

(***************************************************************************)
(* BufferOverflowDetector.                                                 *)
(***************************************************************************)
\* __init__: the thresholds
Detector_init ==
    [max_string_length |-> 255,
     max_int_value     |-> sys_maxsize,
     min_int_value     |-> IntPred(NumNeg(sys_maxsize)),
     max_float_value   |-> sys_float_info_max,
     min_float_value   |-> NumNeg(sys_float_info_max),
     memory_threshold  |-> 90,
     disk_threshold    |-> 90]

\* what a method hands back: a returned dict, or an exception that leaves it
Return(r) == [raised |-> FALSE, ret |-> r]
Raise(e) == [raised |-> TRUE, ret |-> [exception |-> e]]

Sized(items) == [sized |-> TRUE, items |-> items]
Unsized == [sized |-> FALSE, items |-> <<>>]

\* len(x): the length, or TypeError on an object that has none
PyLen(x) ==
    IF x.sized THEN [ok |-> TRUE, n |-> Len(x.items), err |-> ""]
    ELSE [ok |-> FALSE, n |-> 0, err |-> "object has no len()"]

\* an optional argument: <<>> when the caller leaves it out, <<v>> otherwise
None == <<>>
Some(v) == <<v>>

\* check_string with "max_length or self.max_string_length" for line 39
check_string_falsy_default(self, input_str, max_length_arg) ==
    LET max_length == IF max_length_arg = None \/ max_length_arg = Some(0)
                      THEN self.max_string_length
                      ELSE max_length_arg[1]
        res == [overflow |-> FALSE, message |-> <<>>,
                value |-> input_str, max_allowed |-> max_length]
        l == PyLen(input_str)
    IN  IF ~l.ok
        THEN Return([res EXCEPT !.overflow = TRUE,
                !.message = <<"Erreur lors de la verification de la chaine: ", l.err>>])
        ELSE IF l.n > max_length
        THEN Return([res EXCEPT !.overflow = TRUE,
                !.message = <<"Depassement de tampon detecte: ", ToString(l.n),
                              " caracteres > maximum ", ToString(max_length)>>])
        ELSE Return(res)

check_string(self, input_str, max_length_arg) ==
    LET max_length == IF max_length_arg = None THEN self.max_string_length
                      ELSE max_length_arg[1]
        res == [overflow |-> FALSE, message |-> <<>>,
                value |-> input_str, max_allowed |-> max_length]
        l == PyLen(input_str)
    IN  IF ~l.ok
        THEN Return([res EXCEPT !.overflow = TRUE,
                !.message = <<"Erreur lors de la verification de la chaine: ", l.err>>])
        ELSE IF l.n > max_length
        THEN Return([res EXCEPT !.overflow = TRUE,
                !.message = <<"Depassement de tampon detecte: ", ToString(l.n),
                              " caracteres > maximum ", ToString(max_length)>>])
        ELSE Return(res)

\* check_character with "len(char) != 1" for line 76
check_character_not_one(self, char) ==
    LET res == [overflow |-> FALSE, message |-> <<>>, value |-> char]
        l == PyLen(char)
    IN  IF ~l.ok
        THEN Return([res EXCEPT !.overflow = TRUE,
                !.message = <<"Erreur lors de la verification du caractere: ", l.err>>])
        ELSE IF l.n # 1
        THEN Return([res EXCEPT !.overflow = TRUE,
                !.message = <<"Depassement de caractere detecte: '", char.items,
                              "' contient ", ToString(l.n), " caracteres">>])
        ELSE Return(res)

check_character(self, char) ==
    LET res == [overflow |-> FALSE, message |-> <<>>, value |-> char]
        l == PyLen(char)
    IN  IF ~l.ok
        THEN Return([res EXCEPT !.overflow = TRUE,
                !.message = <<"Erreur lors de la verification du caractere: ", l.err>>])
        ELSE IF l.n > 1
        THEN Return([res EXCEPT !.overflow = TRUE,
                !.message = <<"Depassement de caractere detecte: '", char.items,
                              "' contient ", ToString(l.n), " caracteres">>])
        ELSE Return(res)

\* str(value) of a number, as one piece of a message
NumStr(v) == <<v.cls, v.neg, v.mag>>

\* check_number with ">=" and "<=" for lines 105 and 110
check_number_inclusive(self, value, is_integer_arg) ==
    LET is_integer == IF is_integer_arg = None THEN TRUE ELSE is_integer_arg[1]
        res == [overflow |-> FALSE, message |-> <<>>, value |-> value,
                type |-> IF is_integer THEN "integer" ELSE "float/double"]
        max == IF is_integer THEN self.max_int_value ELSE self.max_float_value
        min == IF is_integer THEN self.min_int_value ELSE self.min_float_value
    IN  IF ~IsNumber(value)
        THEN Return([res EXCEPT !.overflow = TRUE,
                !.message = <<"Erreur lors de la verification du nombre: ",
                              "'>' not supported">>])
        ELSE IF value.cls # "nan" /\ (~NumLess(value, max) \/ ~NumGreater(value, min))
        THEN Return([overflow |-> TRUE,
                     message |-> <<IF is_integer THEN "Depassement d'entier detecte: "
                                   ELSE "Depassement de flottant detecte: ",
                                   NumStr(value)>>,
                     value |-> value,
                     type |-> res.type,
                     limits |-> [max |-> max, min |-> min]])
        ELSE Return(res)

check_number(self, value, is_integer_arg) ==
    LET is_integer == IF is_integer_arg = None THEN TRUE ELSE is_integer_arg[1]
        res == [overflow |-> FALSE, message |-> <<>>, value |-> value,
                type |-> IF is_integer THEN "integer" ELSE "float/double"]
        max == IF is_integer THEN self.max_int_value ELSE self.max_float_value
        min == IF is_integer THEN self.min_int_value ELSE self.min_float_value
    IN  IF ~IsNumber(value)
        THEN Return([res EXCEPT !.overflow = TRUE,
                !.message = <<"Erreur lors de la verification du nombre: ",
                              "'>' not supported">>])
        ELSE IF NumGreater(value, max) \/ NumLess(value, min)
        THEN Return([overflow |-> TRUE,
                     message |-> <<IF is_integer THEN "Depassement d'entier detecte: "
                                   ELSE "Depassement de flottant detecte: ",
                                   NumStr(value)>>,
                     value |-> value,
                     type |-> res.type,
                     limits |-> [max |-> max, min |-> min]])
        ELSE Return(res)

\* check_array with ">=" for line 139
check_array_inclusive(self, array, max_size) ==
    LET l == PyLen(array)
        res == [overflow |-> FALSE, message |-> <<>>,
                size |-> l.n, max_allowed |-> max_size]
    IN  IF ~l.ok THEN Raise(l.err)
        ELSE IF l.n >= max_size
        THEN Return([res EXCEPT !.overflow = TRUE,
                !.message = <<"Depassement de tableau detecte: taille ", ToString(l.n),
                              " > maximum ", ToString(max_size)>>])
        ELSE Return(res)

check_array(self, array, max_size) ==
    LET l == PyLen(array)
        res == [overflow |-> FALSE, message |-> <<>>,
                size |-> l.n, max_allowed |-> max_size]
    IN  IF ~l.ok THEN Raise(l.err)   \* len(array) of line 134 is outside the try
        ELSE IF l.n > max_size
        THEN Return([res EXCEPT !.overflow = TRUE,
                !.message = <<"Depassement de tableau detecte: taille ", ToString(l.n),
                              " > maximum ", ToString(max_size)>>])
        ELSE Return(res)

\* len(matrix[0]) for line 169
FirstRowLen(matrix) == Len(matrix.items[1].items)

\* max(len(row) for row in matrix)
MaxRowLen(matrix) == SetMax({Len(matrix.items[i].items) : i \in 1..Len(matrix.items)})

\* line 181 with the column message replacing the row message
ReplaceByColsMessage(res, message) == message

\* line 181: the message once the column bound is exceeded
JoinColsMessage(res, message) ==
    IF ~res.overflow THEN message ELSE res.message \o <<" et ">> \o message

check_matrix(self, matrix, max_rows, max_cols) ==
    LET res == [overflow |-> FALSE, message |-> <<>>,
                dimensions |-> [rows |-> 0, cols |-> 0],
                max_allowed |-> [rows |-> max_rows, cols |-> max_cols]]
        faulty == \/ ~matrix.sized
                  \/ \E i \in 1..Len(matrix.items) : ~matrix.items[i].sized
        rows == Len(matrix.items)
        cols == IF rows > 0 THEN MaxRowLen(matrix) ELSE 0
        res1 == [res EXCEPT !.dimensions = [rows |-> rows, cols |-> cols]]
        res2 == IF rows > max_rows
                THEN [res1 EXCEPT !.overflow = TRUE,
                        !.message = <<"Depassement de matrice detecte: ", ToString(rows),
                                      " lignes > maximum ", ToString(max_rows)>>]
                ELSE res1
        message == <<"Depassement de matrice detecte: ", ToString(cols),
                     " colonnes > maximum ", ToString(max_cols)>>
        \* line 179 sets overflow before line 181 tests it
        res3 == [res2 EXCEPT !.overflow = TRUE]
        res4 == IF cols > max_cols
                THEN [res3 EXCEPT !.message = JoinColsMessage(res3, message)]
                ELSE res2
    IN  IF faulty
        THEN Return([res EXCEPT !.overflow = TRUE,
                !.message = <<"Erreur lors de la verification de la matrice: ",
                              "object has no len()">>])
        ELSE Return(res4)

check_stack(self, stack, max_size) ==
    LET r == check_array(self, stack, max_size)
    IN  IF r.raised THEN r ELSE Return(("type" :> "stack") @@ r.ret)

\* check_list tagging its record as check_stack does
check_list_tagged_stack(self, lst, max_size) ==
    LET r == check_array(self, lst, max_size)
    IN  IF r.raised THEN r ELSE Return(("type" :> "stack") @@ r.ret)

check_list(self, lst, max_size) ==
    LET r == check_array(self, lst, max_size)
    IN  IF r.raised THEN r ELSE Return(("type" :> "list") @@ r.ret)

\* x / (1000**3)
TrueDivGB(x) == [int |-> x \div (1000 ^ 3), frac |-> x % (1000 ^ 3)]

\* x / (1024**3): the quotient is exact in a double for the byte counts of the
\* model, so it is held as int + frac / 1024^3 with 0 <= frac < 1024^3
TrueDivGiB(x) == [int |-> x \div (1024 ^ 3), frac |-> x % (1024 ^ 3)]

\* ">=" for line 247
PercentAtLeast(percent, threshold) == percent >= threshold * 10

\* a percent figure (in tenths) against a threshold given in whole percent
PercentGreater(percent, threshold) == percent > threshold * 10

\* f"{percent:.1f}"
Fmt1f(percent) == <<ToString(percent \div 10), ".", ToString(percent % 10)>>

\* psutil.virtual_memory(): the figures of the host, or an exception
VmFailure == [ok |-> FALSE, total |-> 0, available |-> 0, used |-> 0, percent |-> 0]
VmReading(total, available, used, percent) ==
    [ok |-> TRUE, total |-> total, available |-> available, used |-> used,
     percent |-> percent]

check_memory_usage(self, memory) ==
    LET res == [overflow |-> FALSE, message |-> <<>>, memory_info |-> <<>>]
        info == [total        |-> memory.total,
                 available    |-> memory.available,
                 used         |-> memory.used,
                 percent      |-> memory.percent,
                 total_gb     |-> TrueDivGiB(memory.total),
                 available_gb |-> TrueDivGiB(memory.available),
                 used_gb      |-> TrueDivGiB(memory.used)]
    IN  IF ~memory.ok
        THEN Return([res EXCEPT !.overflow = TRUE,
                !.message = <<"Erreur lors de la verification de la memoire: ",
                              "query failed">>])
        ELSE IF PercentGreater(memory.percent, self.memory_threshold)
        THEN Return([overflow |-> TRUE,
                     message |-> <<"Attention: Utilisation elevee de la memoire (">>
                                 \o Fmt1f(memory.percent) \o <<"%)">>,
                     memory_info |-> info])
        ELSE Return([res EXCEPT !.memory_info = info])

\* psutil.disk_usage(path): the figures of the filesystem, or an exception
DiskFailure == [ok |-> FALSE, total |-> 0, used |-> 0, free |-> 0, percent |-> 0]
DiskReading(total, used, free, percent) ==
    [ok |-> TRUE, total |-> total, used |-> used, free |-> free, percent |-> percent]

\* lines 276-285 with the used and free figures exchanged
DiskInfoFreeAsUsed(path, disk) ==
    [path     |-> path,
     total    |-> disk.total,
     used     |-> disk.free,
     free     |-> disk.used,
     percent  |-> disk.percent,
     total_gb |-> TrueDivGiB(disk.total),
     used_gb  |-> TrueDivGiB(disk.free),
     free_gb  |-> TrueDivGiB(disk.used)]

\* lines 276-285: disk_info of a query that succeeded
DiskInfo(path, disk) ==
    [path     |-> path,
     total    |-> disk.total,
     used     |-> disk.used,
     free     |-> disk.free,
     percent  |-> disk.percent,
     total_gb |-> TrueDivGiB(disk.total),
     used_gb  |-> TrueDivGiB(disk.used),
     free_gb  |-> TrueDivGiB(disk.free)]

check_disk_usage(self, path_arg, disk) ==
    LET path == IF path_arg = None THEN "/" ELSE path_arg[1]
        res == [overflow |-> FALSE, message |-> <<>>, disk_info |-> <<>>]
    IN  IF ~disk.ok
        THEN Return([res EXCEPT !.overflow = TRUE,
                !.message = <<"Erreur lors de la verification du disque: ",
                              "query failed">>])
        ELSE IF PercentGreater(disk.percent, self.disk_threshold)
        THEN Return([overflow |-> TRUE,
                     message |-> <<"Attention: Utilisation elevee du disque (">>
                                 \o Fmt1f(disk.percent) \o <<"%) pour ", path>>,
                     disk_info |-> DiskInfo(path, disk)])
        ELSE Return([res EXCEPT !.disk_info = DiskInfo(path, disk)])

\* a partition of psutil.disk_partitions(all=True), with what
\* psutil.disk_usage(mountpoint) answers for it; device is a tuple of
\* characters, opts the tuple of its lower-cased mount options
Partition(device, mountpoint, fstype, opts, usage) ==
    [device |-> device, mountpoint |-> mountpoint, fstype |-> fstype,
     opts |-> opts, usage |-> usage]

PartitionsFailure == [ok |-> FALSE, list |-> <<>>]
Partitions(list) == [ok |-> TRUE, list |-> list]

\* device.startswith(prefixes)
StartsWithAny(device, prefixes) ==
    \E p \in prefixes : Len(device) >= Len(p) /\ SubSeq(device, 1, Len(p)) = p

\* lines 317-319: the partition is taken for a removable drive
IsRemovable(system, partition) ==
    \/ /\ partition.device # <<>>
       /\ \E i \in 1..Len(partition.opts) : partition.opts[i] = "removable"
    \/ /\ system = "Windows"
       /\ StartsWithAny(partition.device,
                        {<<"E", ":">>, <<"F", ":">>, <<"G", ":">>, <<"H", ":">>})

\* lines 322-330
DriveInfo(partition) ==
    [device     |-> partition.device,
     mountpoint |-> partition.mountpoint,
     fstype     |-> partition.fstype,
     total_gb   |-> TrueDivGiB(partition.usage.total),
     used_gb    |-> TrueDivGiB(partition.usage.used),
     free_gb    |-> TrueDivGiB(partition.usage.free),
     percent    |-> partition.usage.percent]

DriveMessage(partition) ==
    <<"Attention: Utilisation elevee du disque amovible (">>
        \o Fmt1f(partition.usage.percent) \o <<"%) pour ", partition.device>>

\* line 337 storing nothing while the message is still empty
KeepEarlierDriveMessage(res, message) ==
    IF res.message = <<>> THEN res.message ELSE res.message \o <<"\n">> \o message

\* line 337: one more line of the message
JoinDriveMessage(res, message) ==
    IF res.message = <<>> THEN message ELSE res.message \o <<"\n">> \o message

\* lines 338-340 with a failed query of one drive reported as an error
DriveStepReportingFailure(self, system, res, partition) ==
    IF ~IsRemovable(system, partition) THEN res
    ELSE IF ~partition.usage.ok
    THEN [res EXCEPT !.overflow = TRUE,
            !.message = <<"Erreur lors de la verification des disques amovibles: ",
                          "query failed">>]
    ELSE LET listed == [res EXCEPT !.drives = Append(@, DriveInfo(partition))]
         IN  IF PercentGreater(partition.usage.percent, self.disk_threshold)
             THEN [listed EXCEPT !.overflow = TRUE,
                     !.message = JoinDriveMessage(listed, DriveMessage(partition))]
             ELSE listed

\* lines 315-340: one turn of the loop over the partitions
DriveStep(self, system, res, partition) ==
    IF ~IsRemovable(system, partition) THEN res
    ELSE IF ~partition.usage.ok THEN res
    ELSE LET listed == [res EXCEPT !.drives = Append(@, DriveInfo(partition))]
         IN  IF PercentGreater(partition.usage.percent, self.disk_threshold)
             THEN [listed EXCEPT !.overflow = TRUE,
                     !.message = JoinDriveMessage(listed, DriveMessage(partition))]
             ELSE listed

check_removable_drives(self, system, partitions) ==
    LET res == [overflow |-> FALSE, message |-> <<>>, drives |-> <<>>]
        loop[i \in 0..Len(partitions.list)] ==
            IF i = 0 THEN res
            ELSE DriveStep(self, system, loop[i - 1], partitions.list[i])
    IN  IF ~partitions.ok
        THEN Return([res EXCEPT !.overflow = TRUE,
                !.message = <<"Erreur lors de la verification des disques amovibles: ",
                              "query failed">>])
        ELSE Return(loop[Len(partitions.list)])

\* f"{seconds:.4f}" of a time held in ten-thousandths of a second
Fmt4f(t) ==
    <<ToString(t \div 10000), ".", ToString((t \div 1000) % 10),
      ToString((t \div 100) % 10), ToString((t \div 10) % 10), ToString(t % 10)>>

\* what [0] * size does: TypeError when size is no int, OverflowError when it
\* does not fit an index, and otherwise what the host's memory allows
AllocationFault(size, host) ==
    IF size.cls # "int" THEN "TypeError"
    ELSE IF NumGreater(size, sys_maxsize) THEN "OverflowError"
    ELSE IF host.memory_error THEN "MemoryError"
    ELSE "none"

\* simulate_buffer_overflow with "except Exception" placed before
\* "except MemoryError"
simulate_buffer_overflow_generic_first(self, size, host) ==
    LET res == [overflow |-> FALSE, message |-> <<>>, simulation |-> "buffer_overflow"]
        fault == AllocationFault(size, host)
    IN  IF fault = "none"
        THEN Return([overflow |-> FALSE,
                     message |-> <<"Allocation reussie de ", NumStr(size),
                                   " elements en ">> \o Fmt4f(host.elapsed)
                                 \o <<" secondes">>,
                     simulation |-> "buffer_overflow",
                     allocated_size |-> size,
                     allocation_time |-> host.elapsed])
        ELSE Return([res EXCEPT !.overflow = TRUE,
                !.message = <<"Erreur lors de la simulation: ", fault>>])

simulate_buffer_overflow(self, size, host) ==
    LET res == [overflow |-> FALSE, message |-> <<>>, simulation |-> "buffer_overflow"]
        fault == AllocationFault(size, host)
    IN  IF fault = "none"
        THEN Return([overflow |-> FALSE,
                     message |-> <<"Allocation reussie de ", NumStr(size),
                                   " elements en ">> \o Fmt4f(host.elapsed)
                                 \o <<" secondes">>,
                     simulation |-> "buffer_overflow",
                     allocated_size |-> size,
                     allocation_time |-> host.elapsed])
        ELSE IF fault = "MemoryError"
        THEN Return([res EXCEPT !.overflow = TRUE,
                !.message = <<"Depassement de memoire detecte: impossible d'allouer ",
                              NumStr(size), " elements">>])
        ELSE Return([res EXCEPT !.overflow = TRUE,
                !.message = <<"Erreur lors de la simulation: ", fault>>])

(***************************************************************************)
(* BufferOverflowDetectorGUI: the text of an entry field is a tuple of     *)
(* one-character strings.  The texts the model draws are made of spaces, a *)
(* sign, decimal digits, an exponent mark and the words inf and nan; int() *)
(* and float() are modelled on those (no underscore, no decimal point, no  *)
(* negative exponent; a finite float keeps the decimal value of its text,  *)
(* rounding being modelled where it decides the comparison with the        *)
(* largest double: at and above float_info_max).                           *)
(***************************************************************************)
DigitChars == {"0", "1", "2", "3", "4", "5", "6", "7", "8", "9"}
CharDigit(c) == CHOOSE d \in Digits : ToString(d) = c
DigitText(mag) == [i \in 1..Len(mag) |-> ToString(mag[i])]

AllDigits(t) == t # <<>> /\ \A i \in 1..Len(t) : t[i] \in DigitChars
DigitsOf(t) == StripZeros([i \in 1..Len(t) |-> CharDigit(t[i])])

\* str.strip() of the blanks around a text
Strip(t) ==
    IF FirstOther(t, " ") = 0 THEN <<>>
    ELSE SubSeq(t, FirstOther(t, " "), LastOther(t, " "))

HasSign(t) == t # <<>> /\ t[1] \in {"-", "+"}
Unsigned(t) == IF HasSign(t) THEN Tail(t) ELSE t
IsMinus(t) == t # <<>> /\ t[1] = "-"

ParseFailure == [ok |-> FALSE, val |-> PyObj]
Parsed(v) == [ok |-> TRUE, val |-> v]

\* int() with the value clamped to the range of a 64-bit machine word
ParseIntSaturating(text) ==
    LET t == Strip(text)
        v == PyInt(IsMinus(t), DigitsOf(Unsigned(t)))
        max == sys_maxsize
        min == IntPred(NumNeg(sys_maxsize))
    IN  IF ~AllDigits(Unsigned(t)) THEN ParseFailure
        ELSE IF NumGreater(v, max) THEN Parsed(max)
        ELSE IF NumLess(v, min) THEN Parsed(min)
        ELSE Parsed(v)

\* int(text): an int of any size, or ValueError
ParseInt(text) ==
    LET t == Strip(text)
    IN  IF AllDigits(Unsigned(t))
        THEN Parsed(PyInt(IsMinus(t), DigitsOf(Unsigned(t))))
        ELSE ParseFailure

\* the value of a short tuple of digits
SmallNat(ds) ==
    LET f[i \in 0..Len(ds)] == IF i = 0 THEN 0 ELSE f[i - 1] * 10 + ds[i]
    IN  f[Len(ds)]

\* the double nearest to a decimal magnitude
RoundToDouble(neg, mag) ==
    IF ~MagLess(mag, float_round_limit_digits) THEN PyInf(neg)
    ELSE IF MagLess(float_info_max_digits, mag) THEN PyFloat(neg, float_info_max_digits)
    ELSE PyFloat(neg, mag)

\* the place of the exponent mark in a text, 0 without one
ExponentMark(u) ==
    LET marks == {i \in 1..Len(u) : u[i] = "e"}
    IN  IF marks = {} THEN 0 ELSE SetMin(marks)

\* float(text): a double, or ValueError
ParseFloat(text) ==
    LET t == Strip(text)
        u == Unsigned(t)
        e == ExponentMark(u)
        mant == IF e = 0 THEN u ELSE SubSeq(u, 1, e - 1)
        expo == IF e = 0 THEN <<"0">> ELSE SubSeq(u, e + 1, Len(u))
    IN  IF u = <<"i", "n", "f">> THEN Parsed(PyInf(IsMinus(t)))
        ELSE IF u = <<"n", "a", "n">> THEN Parsed(PyNaN)
        ELSE IF AllDigits(mant) /\ AllDigits(expo)
        THEN Parsed(RoundToDouble(IsMinus(t),
                        MagShift(DigitsOf(mant),
                                 SmallNat([i \in 1..Len(expo) |-> CharDigit(expo[i])]))))
        ELSE ParseFailure

\* f"{gb:.2f}" of a quotient int + frac / 1024^3: the nearest hundredth, a tie
\* going to the even one
Fmt2f(gb) ==
    LET fh == gb.frac \div (2 ^ 15)
        fl == gb.frac % (2 ^ 15)
        a  == (fh * 100) + ((fl * 100) \div (2 ^ 15))
        q  == a \div (2 ^ 15)
        rem == ((a % (2 ^ 15)) * (2 ^ 15)) + ((fl * 100) % (2 ^ 15))
        h  == IF rem > 2 ^ 29 \/ (rem = 2 ^ 29 /\ q % 2 = 1) THEN q + 1 ELSE q
    IN  <<ToString(gb.int + (h \div 100)), ".",
          ToString((h % 100) \div 10), ToString(h % 10)>>

\* str() of a checked value: the characters of a string, the digits of a number
ValueStr(v) == IF "cls" \in DOMAIN v THEN NumStr(v) ELSE v.items

format_result_gui(res) ==
    IF res.overflow THEN <<"[OVERFLOW DETECTE] ">> \o res.message
    ELSE <<"[OK] ">> \o
         (IF "value" \in DOMAIN res
          THEN <<"Valeur: ", ValueStr(res.value)>>
          ELSE IF "size" \in DOMAIN res
          THEN <<"Taille: ", ToString(res.size), "/", ToString(res.max_allowed)>>
          ELSE IF "dimensions" \in DOMAIN res
          THEN <<"Dimensions: ", ToString(res.dimensions.rows), "x",
                 ToString(res.dimensions.cols), " (max: ",
                 ToString(res.max_allowed.rows), "x",
                 ToString(res.max_allowed.cols), ")">>
          ELSE IF "memory_info" \in DOMAIN res
          THEN <<"Memoire: ">> \o Fmt1f(res.memory_info.percent)
                 \o <<"% utilisee (">> \o Fmt2f(res.memory_info.used_gb)
                 \o <<"/">> \o Fmt2f(res.memory_info.total_gb) \o <<" GB)">>
          ELSE IF "disk_info" \in DOMAIN res
          THEN <<"Disque (", res.disk_info.path, "): ">>
                 \o Fmt1f(res.disk_info.percent)
                 \o <<"% utilise (">> \o Fmt2f(res.disk_info.used_gb)
                 \o <<"/">> \o Fmt2f(res.disk_info.total_gb) \o <<" GB)">>
          ELSE <<>>)

(***************************************************************************)
(* The inputs the model draws.                                             *)
(***************************************************************************)
SeqsUpTo(S, n) == UNION {[1..k -> S] : k \in 0..n}
Rep(x, n) == [i \in 1..n |-> x]

\* strings of up to MaxLen characters, strings around the default bound, and
\* an object without a length
StrInputs ==
    {Sized(s) : s \in SeqsUpTo({"a", "b"}, MaxLen)}
        \cup {Sized(Rep("a", Detector_init.max_string_length + d)) : d \in {-1, 0, 1}}
        \cup {Unsized}

MaxLengthArgs == {None} \cup {Some(n) : n \in (-1)..(MaxLen + 1)}

ArrayInputs ==
    {Sized(s) : s \in SeqsUpTo({0, 1}, MaxLen)} \cup {Sized(Rep(0, 15)), Unsized}

MaxSizeArgs == ((-1)..(MaxLen + 1)) \cup {10}

RowInputs == {Sized(Rep(0, n)) : n \in 0..MaxCols} \cup {Unsized}

MatrixInputs ==
    {Sized(m) : m \in SeqsUpTo(RowInputs, MaxRows)}
        \cup {Sized(Rep(Sized(Rep(0, 3)), 5)), Unsized}

MaxRowsArgs == (0..(MaxRows + 1)) \cup {5}
MaxColsArgs == (0..(MaxCols + 1)) \cup {5}

IntInputs ==
    LET max == Detector_init.max_int_value
        min == Detector_init.min_int_value
    IN  {PyInt(FALSE, <<>>), PyInt(FALSE, <<1>>), PyInt(TRUE, <<1>>),
         IntPred(max), max, IntSucc(max), IntPred(min), min, IntSucc(min),
         PyInt(FALSE, MagShift(<<1>>, 400)), PyInt(TRUE, MagShift(<<1>>, 400))}

FloatInputs ==
    LET max == Detector_init.max_float_value
    IN  {PyFloat(FALSE, <<>>), PyFloat(TRUE, <<>>), PyFloat(FALSE, <<1>>),
         PyFloat(TRUE, <<1>>), PyFloat(FALSE, MagShift(<<1>>, 308)),
         max, NumNeg(max), PyInf(FALSE), PyInf(TRUE), PyNaN}

NumberInputs == IntInputs \cup FloatInputs \cup {PyObj}

IsIntegerArgs == {None, Some(TRUE), Some(FALSE)}

VmInputs ==
    {VmFailure} \cup
    {VmReading(t, a, u, p) :
        t \in {1024 ^ 3, 3 * (1024 ^ 3 \div 2)},
        a \in {0, 5 * (1024 ^ 2)},
        u \in {0, 1000, 1024 ^ 3},
        p \in {0, 899, 900, 901, 1000}}

DiskInputs ==
    {DiskFailure} \cup
    {DiskReading(1024 ^ 3, u, f, p) :
        u \in {0, 1024 ^ 3 \div 2},
        f \in {1000, 1024 ^ 3 \div 2},
        p \in {0, 900, 901}}

PathArgs == {None, Some("/"), Some("/mnt/usb")}

\* a drive letter with and without the removable option, a device of another
\* system with it, a partition without a device, and a fixed disk
PartitionKinds ==
    {[device |-> <<"E", ":", "\\">>, opts |-> <<"rw", "removable">>],
     [device |-> <<"F", ":", "\\">>, opts |-> <<"rw">>],
     [device |-> <<"s", "d", "b">>,  opts |-> <<"rw", "removable">>],
     [device |-> <<>>,               opts |-> <<"removable">>],
     [device |-> <<"C", ":", "\\">>, opts |-> <<"rw", "fixed">>]}

DriveUsages ==
    {DiskFailure,
     DiskReading(1024 ^ 3, 0, 1024 ^ 3 \div 2, 500),
     DiskReading(1024 ^ 3, 1024 ^ 3 \div 2, 1000, 901),
     DiskReading(1024 ^ 3, 1024 ^ 3 \div 2, 0, 1000)}

PartitionInputs ==
    {Partition(k.device, k.device, "vfat", k.opts, u) :
        k \in PartitionKinds, u \in DriveUsages}

PartitionsInputs ==
    {PartitionsFailure} \cup {Partitions(l) : l \in SeqsUpTo(PartitionInputs, MaxDrives)}

SystemInputs == {"Windows", "Linux"}

SizeInputs ==
    {PyInt(FALSE, <<>>), PyInt(TRUE, <<1>>), PyInt(FALSE, <<1, 0, 0, 0>>),
     sys_maxsize, IntSucc(sys_maxsize), PyObj}

HostInputs == [memory_error : BOOLEAN, elapsed : {0, 12345}]

\* texts of the integer field: not integers, small integers, and the
\* integers at and next to sys.maxsize and -sys.maxsize - 1
IntTexts ==
    {<<>>, <<"x">>, <<"-">>, <<"1", "e", "2">>, <<"0">>, <<"-", "1">>,
     <<" ", "0", "7", " ">>, <<"+", "1">>,
     DigitText(sys_maxsize_digits),
     DigitText(MagIncr(sys_maxsize_digits)),
     <<"-">> \o DigitText(MagIncr(sys_maxsize_digits)),
     <<"-">> \o DigitText(MagIncr(MagIncr(sys_maxsize_digits)))}

\* texts of the float field: not floats, small floats, inf and nan, and the
\* decimals at and next to the largest double and the rounding limit
FloatTexts ==
    {<<>>, <<"x">>, <<"1", "e">>, <<"0">>, <<"-", "1">>, <<"1", "e", "2">>,
     <<"i", "n", "f">>, <<"-", "i", "n", "f">>, <<"n", "a", "n">>,
     <<"1", "e", "3", "0", "8">>, <<"1", "e", "3", "0", "9">>,
     <<"-", "1", "e", "3", "0", "9">>,
     DigitText(float_info_max_digits),
     DigitText(MagIncr(float_info_max_digits)),
     DigitText(MagDecr(float_round_limit_digits)),
     DigitText(float_round_limit_digits)}

(***************************************************************************)
(* The state machine: one action per call of a method of the detector.     *)
(* The methods are synchronous: a caller makes a call (call), is handed a  *)
(* record or an exception (outcome, result), and lets go of it (Discard)   *)
(* before its next call.                                                   *)
(***************************************************************************)
NoCall == [op |-> "none", args |-> <<>>]
NoHandler == [name |-> "none", inputs |-> <<>>]

\* the six content frames of the window
ContentFrames ==
    {"character_string_frame", "numbers_frame", "arrays_matrices_frame",
     "lists_stacks_frame", "memory_frame", "buffer_overflow_frame"}

\* hide_all_content_frames leaving the memory frame out of its list
hide_all_but_memory_frame(shown) == shown \ (ContentFrames \ {"memory_frame"})

\* pack_forget of each of the six frames
hide_all_content_frames(shown) == shown \ ContentFrames

\* self after op(args), with an explicit max_length kept as the new default
SelfAfterKeepingMaxLength(self, op, args) ==
    IF op = "check_string" /\ args.max_length # <<>>
    THEN [self EXCEPT !.max_string_length = args.max_length[1]]
    ELSE self

\* self after op(args): no method assigns an attribute of self
SelfAfter(self, op, args) == self

Init ==
    /\ detector = Detector_init
    /\ call = NoCall
    /\ outcome = "none"
    /\ result = <<>>
    /\ handler = NoHandler
    /\ results_text = <<>>
    /\ dialog = <<>>
    /\ packed = hide_all_content_frames({}) \cup {"character_string_frame"}
    /\ selected = "none"

\* the call op(args) handing back out
Invoke(op, args, out) ==
    /\ outcome = "none"
    /\ call' = [op |-> op, args |-> args]
    /\ outcome' = IF out.raised THEN "raised" ELSE "returned"
    /\ result' = out.ret
    /\ detector' = SelfAfter(detector, op, args)

GuiIdle == UNCHANGED <<handler, results_text, dialog, packed, selected>>

CheckString ==
    \E s \in StrInputs, n \in MaxLengthArgs :
        /\ Invoke("check_string", [input_str |-> s, max_length |-> n],
                  check_string(detector, s, n))
        /\ GuiIdle

CheckCharacter ==
    \E c \in StrInputs :
        /\ Invoke("check_character", [char |-> c], check_character(detector, c))
        /\ GuiIdle

CheckNumber ==
    \E v \in NumberInputs, i \in IsIntegerArgs :
        /\ Invoke("check_number", [value |-> v, is_integer |-> i],
                  check_number(detector, v, i))
        /\ GuiIdle

CheckArray ==
    \E a \in ArrayInputs, n \in MaxSizeArgs :
        /\ Invoke("check_array", [array |-> a, max_size |-> n],
                  check_array(detector, a, n))
        /\ GuiIdle

CheckStack ==
    \E a \in ArrayInputs, n \in MaxSizeArgs :
        /\ Invoke("check_stack", [array |-> a, max_size |-> n],
                  check_stack(detector, a, n))
        /\ GuiIdle

CheckList ==
    \E a \in ArrayInputs, n \in MaxSizeArgs :
        /\ Invoke("check_list", [array |-> a, max_size |-> n],
                  check_list(detector, a, n))
        /\ GuiIdle

CheckMatrix ==
    \E m \in MatrixInputs, r \in MaxRowsArgs, c \in MaxColsArgs :
        /\ Invoke("check_matrix", [matrix |-> m, max_rows |-> r, max_cols |-> c],
                  check_matrix(detector, m, r, c))
        /\ GuiIdle

CheckMemoryUsage ==
    \E memory \in VmInputs :
        /\ Invoke("check_memory_usage", [memory |-> memory],
                  check_memory_usage(detector, memory))
        /\ GuiIdle

CheckDiskUsage ==
    \E path \in PathArgs, disk \in DiskInputs :
        /\ Invoke("check_disk_usage", [path |-> path, disk |-> disk],
                  check_disk_usage(detector, path, disk))
        /\ GuiIdle

CheckRemovableDrives ==
    \E system \in SystemInputs, partitions \in PartitionsInputs :
        /\ Invoke("check_removable_drives",
                  [system |-> system, partitions |-> partitions],
                  check_removable_drives(detector, system, partitions))
        /\ GuiIdle

SimulateBufferOverflow ==
    \E size \in SizeInputs, host \in HostInputs :
        /\ Invoke("simulate_buffer_overflow", [size |-> size, host |-> host],
                  simulate_buffer_overflow(detector, size, host))
        /\ GuiIdle

Discard ==
    /\ outcome # "none"
    /\ handler = NoHandler
    /\ call' = NoCall
    /\ outcome' = "none"
    /\ result' = <<>>
    /\ UNCHANGED detector
    /\ GuiIdle

Next ==
    \/ Discard
    \/ CheckString
    \/ CheckCharacter
    \/ CheckNumber
    \/ CheckArray
    \/ CheckStack
    \/ CheckList
    \/ CheckMatrix
    \/ CheckMemoryUsage
    \/ CheckDiskUsage
    \/ CheckRemovableDrives
    \/ SimulateBufferOverflow

Spec == Init /\ [][Next]_vars

(***************************************************************************)
(* The handlers of the window: one action per press of a test button, with *)
(* the text of its entry fields.  call, outcome and result are the call    *)
(* the handler made of the detector (none when it made none), dialog the   *)
(* error dialog it showed (none: <<>>), results_text the entries of the    *)
(* results box.                                                            *)
(***************************************************************************)
\* append_result: one more entry at the end of the results box
append_result(log, text) == Append(log, text)

Handle(name, inputs) ==
    /\ Len(results_text) < MaxLog
    /\ handler' = [name |-> name, inputs |-> inputs]
    /\ UNCHANGED <<packed, selected>>

\* the handler called op(args), was handed out and appended entry
CalledAndAppended(op, args, out, label) ==
    /\ call' = [op |-> op, args |-> args]
    /\ outcome' = "returned"
    /\ result' = out.ret
    /\ results_text' = append_result(results_text, <<label>> \o format_result_gui(out.ret))
    /\ dialog' = <<>>
    /\ detector' = SelfAfter(detector, op, args)

\* an except clause that also writes its message to the results
ShowedErrorAndLogged(title, message) ==
    /\ call' = NoCall
    /\ outcome' = "none"
    /\ result' = <<>>
    /\ results_text' = append_result(results_text, <<message>>)
    /\ dialog' = <<title, message>>
    /\ detector' = detector

\* the handler showed an error dialog before any call of the detector
ShowedError(title, message) ==
    /\ call' = NoCall
    /\ outcome' = "none"
    /\ result' = <<>>
    /\ results_text' = results_text
    /\ dialog' = <<title, message>>
    /\ detector' = detector

\* test_integer with text in the integer field
test_integer_on(text) ==
    /\ Handle("test_integer", <<text>>)
    /\ LET value == ParseInt(text)
       IN  IF ~value.ok
           THEN ShowedError("Erreur", "Veuillez entrer un entier valide.")
           ELSE CalledAndAppended("check_number",
                    [value |-> value.val, is_integer |-> Some(TRUE)],
                    check_number(detector, value.val, Some(TRUE)),
                    "Test d'entier: ")

\* test_float with text in the float field
test_float_on(text) ==
    /\ Handle("test_float", <<text>>)
    /\ LET value == ParseFloat(text)
       IN  IF ~value.ok
           THEN ShowedError("Erreur", "Veuillez entrer un nombre reel valide.")
           ELSE CalledAndAppended("check_number",
                    [value |-> value.val, is_integer |-> Some(FALSE)],
                    check_number(detector, value.val, Some(FALSE)),
                    "Test de nombre reel: ")

test_integer == \E text \in IntTexts : test_integer_on(text)

test_float == \E text \in FloatTexts : test_float_on(text)

NextGUI ==
    \/ test_integer
    \/ test_float

SpecGUI == Init /\ [][NextGUI]_vars

(***************************************************************************)
(* The window: a sidebar button shows one content frame, and the test      *)
(* button of a handler lies in the frame that create_*_frame builds it in, *)
(* so that it is pressed while that frame is shown.  The session is        *)
(* followed until the results hold MaxLog entries.                         *)
(***************************************************************************)

\* the value of an int of a few digits
IntOf(v) == IF v.neg THEN 0 - SmallNat(v.mag) ELSE SmallNat(v.mag)

\* [0] * n: no element when n is negative
ZeroList(n) == Sized(Rep(0, IF n < 0 THEN 0 ELSE n))

\* [[0 for _ in range(cols)] for _ in range(rows)]
ZeroMatrix(rows, cols) ==
    Sized(Rep(ZeroList(cols), IF rows < 0 THEN 0 ELSE rows))

\* the handler called op(args): it appends the rendering of the record it is
\* handed, or shows the dialog of its generic except clause
CalledThenRendered(op, args, out, label, context) ==
    IF out.raised
    THEN /\ call' = [op |-> op, args |-> args]
         /\ outcome' = "raised"
         /\ result' = out.ret
         /\ results_text' = results_text
         /\ dialog' = <<"Erreur", <<context, out.ret.exception>>>>
         /\ detector' = SelfAfter(detector, op, args)
    ELSE CalledAndAppended(op, args, out, label)

test_character(text) ==
    /\ Handle("test_character", <<text>>)
    /\ CalledThenRendered("check_character", [char |-> Sized(text)],
           check_character(detector, Sized(text)),
           "Test de caractere: ", "Erreur lors du test de caractere: ")

\* int() of the bound raises ValueError into the generic except clause
test_string(text, max_text) ==
    /\ Handle("test_string", <<text, max_text>>)
    /\ LET max_length == ParseInt(max_text)
       IN  IF ~max_length.ok
           THEN ShowedError("Erreur",
                    <<"Erreur lors du test de chaine: ", "ValueError">>)
           ELSE CalledThenRendered("check_string",
                    [input_str |-> Sized(text),
                     max_length |-> Some(IntOf(max_length.val))],
                    check_string(detector, Sized(text), Some(IntOf(max_length.val))),
                    "Test de chaine: ", "Erreur lors du test de chaine: ")

\* two sizes, a list of zeros of the second, one check against the first
test_array(max_text, size_text, host) ==
    /\ Handle("test_array", <<max_text, size_text>>)
    /\ LET size == ParseInt(max_text)
           test_size == ParseInt(size_text)
       IN  IF ~size.ok \/ ~test_size.ok
           THEN ShowedError("Erreur", "Veuillez entrer des tailles valides.")
           ELSE IF AllocationFault(test_size.val, host) # "none"
           THEN ShowedError("Erreur",
                    <<"Erreur lors du test de tableau: ", AllocationFault(test_size.val, host)>>)
           ELSE CalledThenRendered("check_array",
                    [array |-> ZeroList(IntOf(test_size.val)),
                     max_size |-> IntOf(size.val)],
                    check_array(detector, ZeroList(IntOf(test_size.val)), IntOf(size.val)),
                    "Test de tableau: ", "Erreur lors du test de tableau: ")

test_list(max_text, size_text, host) ==
    /\ Handle("test_list", <<max_text, size_text>>)
    /\ LET max_size == ParseInt(max_text)
           test_size == ParseInt(size_text)
       IN  IF ~max_size.ok \/ ~test_size.ok
           THEN ShowedError("Erreur", "Veuillez entrer des tailles valides.")
           ELSE IF AllocationFault(test_size.val, host) # "none"
           THEN ShowedError("Erreur",
                    <<"Erreur lors du test de liste: ", AllocationFault(test_size.val, host)>>)
           ELSE CalledThenRendered("check_list",
                    [array |-> ZeroList(IntOf(test_size.val)),
                     max_size |-> IntOf(max_size.val)],
                    check_list(detector, ZeroList(IntOf(test_size.val)), IntOf(max_size.val)),
                    "Test de liste: ", "Erreur lors du test de liste: ")

test_stack(max_text, size_text, host) ==
    /\ Handle("test_stack", <<max_text, size_text>>)
    /\ LET max_size == ParseInt(max_text)
           test_size == ParseInt(size_text)
       IN  IF ~max_size.ok \/ ~test_size.ok
           THEN ShowedError("Erreur", "Veuillez entrer des tailles valides.")
           ELSE IF AllocationFault(test_size.val, host) # "none"
           THEN ShowedError("Erreur",
                    <<"Erreur lors du test de pile: ", AllocationFault(test_size.val, host)>>)
           ELSE CalledThenRendered("check_stack",
                    [array |-> ZeroList(IntOf(test_size.val)),
                     max_size |-> IntOf(max_size.val)],
                    check_stack(detector, ZeroList(IntOf(test_size.val)), IntOf(max_size.val)),
                    "Test de pile: ", "Erreur lors du test de pile: ")

test_matrix(max_rows_text, max_cols_text, rows_text, cols_text, host) ==
    /\ Handle("test_matrix", <<max_rows_text, max_cols_text, rows_text, cols_text>>)
    /\ LET max_rows == ParseInt(max_rows_text)
           max_cols == ParseInt(max_cols_text)
           test_rows == ParseInt(rows_text)
           test_cols == ParseInt(cols_text)
       IN  IF ~max_rows.ok \/ ~max_cols.ok \/ ~test_rows.ok \/ ~test_cols.ok
           THEN ShowedError("Erreur", "Veuillez entrer des dimensions valides.")
           ELSE IF host.memory_error
           THEN ShowedError("Erreur",
                    <<"Erreur lors du test de matrice: ", "MemoryError">>)
           ELSE CalledThenRendered("check_matrix",
                    [matrix |-> ZeroMatrix(IntOf(test_rows.val), IntOf(test_cols.val)),
                     max_rows |-> IntOf(max_rows.val),
                     max_cols |-> IntOf(max_cols.val)],
                    check_matrix(detector,
                        ZeroMatrix(IntOf(test_rows.val), IntOf(test_cols.val)),
                        IntOf(max_rows.val), IntOf(max_cols.val)),
                    "Test de matrice: ", "Erreur lors du test de matrice: ")

test_memory(memory) ==
    /\ Handle("test_memory", <<>>)
    /\ CalledThenRendered("check_memory_usage", [memory |-> memory],
           check_memory_usage(detector, memory),
           "Test de memoire RAM: ", "Erreur lors du test de memoire: ")

test_disk(path, disk) ==
    /\ Handle("test_disk", <<path>>)
    /\ CalledThenRendered("check_disk_usage", [path |-> Some(path), disk |-> disk],
           check_disk_usage(detector, Some(path), disk),
           "Test de disque: ", "Erreur lors du test de disque: ")

\* the entries of lines 897 and 900
DrivesHeader(drives) ==
    <<"Test de disques amovibles: ", ToString(Len(drives)), " disque(s) detecte(s)">>

DriveLine(drive) ==
    <<"- ", drive.device, ": ">> \o Fmt1f(drive.percent)
        \o <<"% utilise, ">> \o Fmt2f(drive.free_gb) \o <<" GB libre">>

test_removable_drives(system, partitions) ==
    /\ Handle("test_removable_drives", <<>>)
    /\ LET args == [system |-> system, partitions |-> partitions]
           out == check_removable_drives(detector, system, partitions)
           entries[i \in 0..Len(out.ret.drives)] ==
               IF i = 0
               THEN append_result(results_text, DrivesHeader(out.ret.drives))
               ELSE append_result(entries[i - 1], DriveLine(out.ret.drives[i]))
       IN  /\ call' = [op |-> "check_removable_drives", args |-> args]
           /\ outcome' = "returned"
           /\ result' = out.ret
           /\ results_text' = entries[Len(out.ret.drives)]
           /\ dialog' = <<>>
           /\ detector' = SelfAfter(detector, "check_removable_drives", args)

test_buffer_overflow(size_text, host) ==
    /\ Handle("test_buffer_overflow", <<size_text>>)
    /\ LET size == ParseInt(size_text)
       IN  IF ~size.ok
           THEN ShowedError("Erreur", "Veuillez entrer une taille valide.")
           ELSE CalledThenRendered("simulate_buffer_overflow",
                    [size |-> size.val, host |-> host],
                    simulate_buffer_overflow(detector, size.val, host),
                    "Simulation de depassement: ", "Erreur lors de la simulation: ")

\* a sidebar button: hide the six frames, pack one
Show(name, frame) ==
    /\ Len(results_text) < MaxLog
    /\ packed' = hide_all_content_frames(packed) \cup {frame}
    /\ selected' = name
    /\ UNCHANGED <<detector, call, outcome, result, handler, results_text, dialog>>

show_character_string_test ==
    Show("show_character_string_test", "character_string_frame")
show_numbers_test ==
    Show("show_numbers_test", "numbers_frame")
show_arrays_matrices_test ==
    Show("show_arrays_matrices_test", "arrays_matrices_frame")
show_lists_stacks_test ==
    Show("show_lists_stacks_test", "lists_stacks_frame")
show_memory_test ==
    Show("show_memory_test", "memory_frame")
show_buffer_overflow_simulation ==
    Show("show_buffer_overflow_simulation", "buffer_overflow_frame")

\* what is typed into the fields, and what the host answers, in a session
Memory(failing) == [memory_error |-> failing, elapsed |-> 12]

CharFields == {<<"a">>, <<"a", "b">>}
StringFields ==
    {<<<<"a", "b", "c">>, <<"2", "5", "5">>>>,
     <<<<"a", "b", "c">>, <<"2">>>>,
     <<<<"a", "b", "c">>, <<"x">>>>}
IntFields == {<<"0">>, <<"x">>, DigitText(MagIncr(sys_maxsize_digits))}
FloatFields == {<<"0">>, <<"x">>, <<"1", "e", "3", "0", "9">>}
SizesFields ==
    {<<<<"1", "0">>, <<"5">>, Memory(FALSE)>>,
     <<<<"1", "0">>, <<"1", "5">>, Memory(FALSE)>>,
     <<<<"1", "0">>, <<"1", "5">>, Memory(TRUE)>>,
     <<<<"x">>, <<"5">>, Memory(FALSE)>>,
     <<<<"1", "0">>, <<>>, Memory(FALSE)>>,
     <<<<"1", "0">>, DigitText(MagIncr(sys_maxsize_digits)), Memory(FALSE)>>}
MatrixFields ==
    {<<<<"5">>, <<"5">>, <<"3">>, <<"3">>, Memory(FALSE)>>,
     <<<<"5">>, <<"2">>, <<"1">>, <<"3">>, Memory(FALSE)>>,
     <<<<"5">>, <<"2">>, <<"1">>, <<"3">>, Memory(TRUE)>>,
     <<<<"x">>, <<"5">>, <<"3">>, <<"3">>, Memory(FALSE)>>,
     <<<<"5">>, <<"5">>, <<"3">>, <<>>, Memory(FALSE)>>}
MemoryAnswers ==
    {VmFailure,
     VmReading(1024 ^ 3, 5 * (1024 ^ 2), 1000, 500),
     VmReading(1024 ^ 3, 0, 1024 ^ 3, 950)}
DiskFields ==
    {<<"/", DiskFailure>>,
     <<"/", DiskReading(1024 ^ 3, 1024 ^ 3 \div 2, 1024 ^ 3 \div 2, 500)>>,
     <<"/mnt/usb", DiskReading(1024 ^ 3, 1024 ^ 3, 0, 950)>>}
DriveE(usage) ==
    Partition(<<"E", ":", "\\">>, <<"E", ":", "\\">>, "vfat", <<"rw", "removable">>, usage)
PartitionsAnswers ==
    {<<"Linux", PartitionsFailure>>,
     <<"Linux", Partitions(<<DriveE(DiskReading(1024 ^ 3, 1024 ^ 3, 0, 950))>>)>>,
     <<"Windows", Partitions(<<DriveE(DiskFailure),
                               DriveE(DiskReading(1024 ^ 3, 0, 1024 ^ 3, 500))>>)>>}
BufferFields ==
    {<<<<"1", "0", "0", "0">>, Memory(FALSE)>>,
     <<<<"1", "0", "0", "0">>, Memory(TRUE)>>,
     <<<<"x">>, Memory(FALSE)>>}

char_test_button ==
    /\ "character_string_frame" \in packed
    /\ \E text \in CharFields : test_character(text)

string_test_button ==
    /\ "character_string_frame" \in packed
    /\ \E f \in StringFields : test_string(f[1], f[2])

int_test_button ==
    /\ "numbers_frame" \in packed
    /\ \E text \in IntFields : test_integer_on(text)

float_test_button ==
    /\ "numbers_frame" \in packed
    /\ \E text \in FloatFields : test_float_on(text)

array_test_button ==
    /\ "arrays_matrices_frame" \in packed
    /\ \E f \in SizesFields : test_array(f[1], f[2], f[3])

matrix_test_button ==
    /\ "arrays_matrices_frame" \in packed
    /\ \E f \in MatrixFields : test_matrix(f[1], f[2], f[3], f[4], f[5])

list_test_button ==
    /\ "lists_stacks_frame" \in packed
    /\ \E f \in SizesFields : test_list(f[1], f[2], f[3])

stack_test_button ==
    /\ "lists_stacks_frame" \in packed
    /\ \E f \in SizesFields : test_stack(f[1], f[2], f[3])

memory_test_button ==
    /\ "memory_frame" \in packed
    /\ \E memory \in MemoryAnswers : test_memory(memory)

disk_test_button ==
    /\ "memory_frame" \in packed
    /\ \E f \in DiskFields : test_disk(f[1], f[2])

removable_test_button ==
    /\ "memory_frame" \in packed
    /\ \E f \in PartitionsAnswers : test_removable_drives(f[1], f[2])

buffer_test_button ==
    /\ "buffer_overflow_frame" \in packed
    /\ \E f \in BufferFields : test_buffer_overflow(f[1], f[2])

NextWindow ==
    \/ show_character_string_test
    \/ show_numbers_test
    \/ show_arrays_matrices_test
    \/ show_lists_stacks_test
    \/ show_memory_test
    \/ show_buffer_overflow_simulation
    \/ char_test_button
    \/ string_test_button
    \/ int_test_button
    \/ float_test_button
    \/ array_test_button
    \/ matrix_test_button
    \/ list_test_button
    \/ stack_test_button
    \/ memory_test_button
    \/ disk_test_button
    \/ removable_test_button
    \/ buffer_test_button

SpecWindow == Init /\ [][NextWindow]_vars

(***************************************************************************)
(* The claims.                                                             *)
(***************************************************************************)
StringCall == call.op = "check_string" /\ call.args.input_str.sized

\* C1: for a string s and an explicit bound n, check_string returns overflow
\* iff length(s) > n, a bound of 0 included; without a bound the bound used
\* and reported in max_allowed is 255.
C1_StringOverflowIffLonger ==
    StringCall =>
        LET n == IF call.args.max_length = None THEN 255
                 ELSE call.args.max_length[1]
        IN  /\ outcome = "returned"
            /\ result.overflow = (Len(call.args.input_str.items) > n)
            /\ result.max_allowed = n

\* a one-character string against the explicit bound 0 is an overflow
C1_Witness ==
    /\ StringCall
    /\ call.args.max_length = Some(0)
    /\ Len(call.args.input_str.items) = 1
    /\ result.overflow
    /\ result.max_allowed = 0

CharacterCall == call.op = "check_character" /\ call.args.char.sized

\* C2: check_character returns overflow iff its input is longer than 1: no
\* overflow for the empty input and for one character, overflow for two or more.
C2_CharacterOverflowIffLonger ==
    CharacterCall =>
        /\ outcome = "returned"
        /\ result.overflow = (Len(call.args.char.items) > 1)

C2_Witness ==
    /\ CharacterCall
    /\ Len(call.args.char.items) = 2
    /\ result.overflow

ArrayCall == call.op = "check_array" /\ call.args.array.sized

\* C3: for an array of length L and a bound N, check_array returns overflow
\* iff L > N, with size = L and max_allowed = N.
C3_ArrayOverflowIffLonger ==
    ArrayCall =>
        /\ outcome = "returned"
        /\ result.overflow = (Len(call.args.array.items) > call.args.max_size)
        /\ result.size = Len(call.args.array.items)
        /\ result.max_allowed = call.args.max_size

\* the example of the specification: 15 elements against a bound of 10
C3_Witness ==
    /\ ArrayCall
    /\ Len(call.args.array.items) = 15
    /\ call.args.max_size = 10
    /\ result.overflow
    /\ result.size = 15
    /\ result.max_allowed = 10

\* the record r is the record a with the one added field type = tag
Tagged(r, a, tag) ==
    /\ DOMAIN r = DOMAIN a \cup {"type"}
    /\ "type" \notin DOMAIN a
    /\ r.type = tag
    /\ \A k \in DOMAIN a : r[k] = a[k]

\* C4: check_stack and check_list return the record check_array returns on
\* the same input and bound, with the one added field type, "stack" and
\* "list" respectively.
C4_StackListAreTaggedArray ==
    /\ (call.op = "check_stack" /\ call.args.array.sized) =>
          /\ outcome = "returned"
          /\ Tagged(result,
                    check_array(detector, call.args.array, call.args.max_size).ret,
                    "stack")
    /\ (call.op = "check_list" /\ call.args.array.sized) =>
          /\ outcome = "returned"
          /\ Tagged(result,
                    check_array(detector, call.args.array, call.args.max_size).ret,
                    "list")

C4_Witness ==
    /\ call.op = "check_list"
    /\ call.args.array.sized
    /\ Len(call.args.array.items) > call.args.max_size
    /\ result.type = "list"
    /\ result.overflow
    /\ result.message # <<>>

\* a matrix all of whose rows have a length
MatrixCall ==
    /\ call.op = "check_matrix"
    /\ call.args.matrix.sized
    /\ \A i \in 1..Len(call.args.matrix.items) : call.args.matrix.items[i].sized

RowCount == Len(call.args.matrix.items)
RowLens == {Len(call.args.matrix.items[i].items) : i \in 1..RowCount}
\* the length of a longest row, 0 without rows
ColCount ==
    IF RowCount = 0 THEN 0
    ELSE CHOOSE c \in RowLens : \A d \in RowLens : d <= c

\* C5: for a matrix of R rows whose longest row has C elements (C = 0 when
\* R = 0), check_matrix returns overflow iff R > maxRows or C > maxCols and
\* reports dimensions rows = R, cols = C.
C5_MatrixOverflowIffExceeds ==
    MatrixCall =>
        /\ outcome = "returned"
        /\ result.overflow =
              (RowCount > call.args.max_rows \/ ColCount > call.args.max_cols)
        /\ result.dimensions = [rows |-> RowCount, cols |-> ColCount]

\* a ragged matrix whose first row is not its longest, within the row bound,
\* whose longest row exceeds the column bound
C5_Witness ==
    /\ MatrixCall
    /\ RowCount = 2
    /\ Len(call.args.matrix.items[1].items) < Len(call.args.matrix.items[2].items)
    /\ RowCount <= call.args.max_rows
    /\ Len(call.args.matrix.items[1].items) <= call.args.max_cols
    /\ ColCount > call.args.max_cols
    /\ result.overflow
    /\ result.dimensions.cols = ColCount

RowsMessage ==
    <<"Depassement de matrice detecte: ", ToString(RowCount),
      " lignes > maximum ", ToString(call.args.max_rows)>>
ColsMessage ==
    <<"Depassement de matrice detecte: ", ToString(ColCount),
      " colonnes > maximum ", ToString(call.args.max_cols)>>

BothExceeded ==
    /\ MatrixCall
    /\ RowCount > call.args.max_rows
    /\ ColCount > call.args.max_cols

\* C6: when a matrix exceeds the row bound and the column bound, the message
\* is the row message followed by the column message (joined by " et ").
C6_BothMessagesRowsFirst ==
    BothExceeded => result.message = RowsMessage \o <<" et ">> \o ColsMessage

C6_Witness ==
    /\ BothExceeded
    /\ result.overflow
    /\ SubSeq(result.message, 1, Len(RowsMessage)) = RowsMessage

NumberCall == call.op = "check_number" /\ IsNumber(call.args.value)

IsIntegerOfCall ==
    IF call.args.is_integer = None THEN TRUE ELSE call.args.is_integer[1]

\* the range of the kind chosen by is_integer
RangeMax == IF IsIntegerOfCall THEN sys_maxsize ELSE sys_float_info_max
RangeMin ==
    IF IsIntegerOfCall THEN IntPred(NumNeg(sys_maxsize))
    ELSE NumNeg(sys_float_info_max)

\* C7: check_number returns overflow iff the value is above the maximum or
\* below the minimum of the kind chosen by is_integer (sys.maxsize and
\* -sys.maxsize - 1, or sys.float_info.max and its negation); the bounds
\* themselves are no overflow, and the record carries limits = {max, min}
\* exactly on overflow.
C7_NumberOverflowIffOutOfRange ==
    NumberCall =>
        /\ outcome = "returned"
        /\ result.overflow =
              (NumGreater(call.args.value, RangeMax) \/ NumLess(call.args.value, RangeMin))
        /\ call.args.value \in {RangeMax, RangeMin} => ~result.overflow
        /\ (IsIntegerOfCall /\ call.args.value \in
                {IntSucc(sys_maxsize), IntPred(IntPred(NumNeg(sys_maxsize)))})
              => result.overflow
        /\ (~IsIntegerOfCall /\ call.args.value.cls = "inf") => result.overflow
        /\ result.overflow <=> "limits" \in DOMAIN result
        /\ result.overflow => result.limits = [max |-> RangeMax, min |-> RangeMin]

\* the smallest integer, -sys.maxsize - 1, is in range
C7_Witness ==
    /\ NumberCall
    /\ IsIntegerOfCall
    /\ call.args.value = IntPred(NumNeg(sys_maxsize))
    /\ ~result.overflow

\* a handler of a number field that parsed its text and called the detector
ParsedNumberCall ==
    /\ handler.name \in {"test_integer", "test_float"}
    /\ call.op = "check_number"

\* C8 as stated: for every text test_integer or test_float accepts, the
\* check_number call it makes reports no overflow.
C8_ParsedNumberNeverOverflows == ParsedNumberCall => ~result.overflow

\* the unsigned digits a text of the integer field denotes
TextMagnitude == DigitsOf(Unsigned(Strip(handler.inputs[1])))
TextIsNegative == IsMinus(Strip(handler.inputs[1]))

\* the decimal magnitude a text of the float field denotes, for a text of
\* digits with an optional exponent
FloatTextMagnitude ==
    LET u == Unsigned(Strip(handler.inputs[1]))
        e == ExponentMark(u)
    IN  IF e = 0 THEN DigitsOf(u)
        ELSE MagShift(DigitsOf(SubSeq(u, 1, e - 1)),
                      SmallNat([i \in 1..(Len(u) - e) |-> CharDigit(u[e + i])]))

\* C8 amended: the range check is reached through input parsing.  For a text
\* test_integer accepts, check_number reports overflow iff the integer is
\* above sys.maxsize (2^63 - 1) or below -sys.maxsize - 1; for a text
\* test_float accepts, iff the text is inf or -inf or a decimal of magnitude
\* at least 2^1024 - 2^970 (which float() rounds to an infinity).  Accepted
\* text within those ranges reports no overflow.
C8_ParsedNumberOverflowsIffOutOfRange ==
    /\ (handler.name = "test_integer" /\ call.op = "check_number") =>
          result.overflow =
              IF TextIsNegative
              THEN MagLess(MagIncr(sys_maxsize_digits), TextMagnitude)
              ELSE MagLess(sys_maxsize_digits, TextMagnitude)
    /\ (handler.name = "test_float" /\ call.op = "check_number") =>
          result.overflow =
              IF Unsigned(Strip(handler.inputs[1])) = <<"i", "n", "f">> THEN TRUE
              ELSE IF Unsigned(Strip(handler.inputs[1])) = <<"n", "a", "n">> THEN FALSE
              ELSE ~MagLess(FloatTextMagnitude, float_round_limit_digits)

\* the text 9223372036854775808 is accepted and reported as an overflow
C8_Witness ==
    /\ handler.name = "test_integer"
    /\ handler.inputs[1] = DigitText(MagIncr(sys_maxsize_digits))
    /\ call.op = "check_number"
    /\ result.overflow
    /\ dialog = <<>>
    /\ results_text # <<>>
    /\ results_text[Len(results_text)][2] = "[OVERFLOW DETECTE] "

MemoryCall == call.op = "check_memory_usage"

\* C9 as stated: check_memory_usage returns overflow iff the query returned a
\* used-percent above 90, a failed query counting as no such reading.
C9_OverflowIffPercentAbove90 ==
    MemoryCall =>
        result.overflow = (call.args.memory.ok /\ call.args.memory.percent > 900)

\* C9 amended: check_memory_usage returns overflow iff the query fails or
\* returns a used-percent strictly above 90.
C9_OverflowIffFailedOrAbove90 ==
    MemoryCall =>
        /\ outcome = "returned"
        /\ result.overflow =
              (~call.args.memory.ok \/ call.args.memory.percent > 900)

\* a reading of exactly 90.0 percent is no overflow
C9_Witness ==
    /\ MemoryCall
    /\ call.args.memory.ok
    /\ call.args.memory.percent = 900
    /\ ~result.overflow

\* gb is bytes / 1024^3
IsGiBOf(gb, bytes) ==
    /\ gb.frac \in 0..((1024 ^ 3) - 1)
    /\ gb.int * (1024 ^ 3) + gb.frac = bytes

CarriesFigures(info, memory) ==
    /\ {"total", "used", "available", "total_gb", "used_gb", "available_gb"}
          \subseteq DOMAIN info
    /\ info.total = memory.total
    /\ info.used = memory.used
    /\ info.available = memory.available
    /\ IsGiBOf(info.total_gb, info.total)
    /\ IsGiBOf(info.used_gb, info.used)
    /\ IsGiBOf(info.available_gb, info.available)

\* C10 as stated: every record check_memory_usage returns carries in
\* memory_info the byte figures total, used and available and their gigabyte
\* figures, each the byte figure divided by 1024^3.
C10_EveryReturnCarriesFigures ==
    MemoryCall => CarriesFigures(result.memory_info, call.args.memory)

\* C10 amended: every record check_memory_usage returns after a query that
\* succeeded carries those figures, whether overflow is true or false; after
\* a query that failed memory_info is empty.
C10_ReturnCarriesFiguresUnlessFailed ==
    MemoryCall =>
        IF call.args.memory.ok
        THEN CarriesFigures(result.memory_info, call.args.memory)
        ELSE result.memory_info = <<>>

\* an over-threshold reading of one and a half gigabytes in total
C10_Witness ==
    /\ MemoryCall
    /\ call.args.memory.ok
    /\ result.overflow
    /\ result.memory_info.total = 3 * (1024 ^ 3 \div 2)
    /\ result.memory_info.total_gb = [int |-> 1, frac |-> 1024 ^ 3 \div 2]

DiskCall == call.op = "check_disk_usage"
QueriedPath == IF call.args.path = None THEN "/" ELSE call.args.path[1]

\* disk_info reports the queried path and the figures of the query
ReportsQuery(info, disk) ==
    /\ info.path = QueriedPath
    /\ info.total = disk.total
    /\ info.used = disk.used
    /\ info.free = disk.free

\* C11 as stated: check_disk_usage returns overflow iff the query for the
\* path returned a used-percent above 90, and on a successful query
\* disk_info reports the path and the total, used and free figures.
C11_DiskOverflowIffPercentAbove90 ==
    DiskCall =>
        /\ result.overflow = (call.args.disk.ok /\ call.args.disk.percent > 900)
        /\ call.args.disk.ok => ReportsQuery(result.disk_info, call.args.disk)

\* C11 amended: check_disk_usage returns overflow iff the query fails or
\* returns a used-percent strictly above 90; on a successful query disk_info
\* reports the queried path and the figures of that query, on a failed one
\* it is empty.
C11_DiskOverflowIffFailedOrAbove90 ==
    DiskCall =>
        /\ outcome = "returned"
        /\ result.overflow = (~call.args.disk.ok \/ call.args.disk.percent > 900)
        /\ IF call.args.disk.ok
           THEN ReportsQuery(result.disk_info, call.args.disk)
           ELSE result.disk_info = <<>>

C11_Witness ==
    /\ DiskCall
    /\ call.args.path = Some("/mnt/usb")
    /\ call.args.disk.ok
    /\ call.args.disk.percent = 901
    /\ call.args.disk.used # call.args.disk.free
    /\ result.overflow
    /\ result.disk_info.path = "/mnt/usb"
    /\ result.disk_info.used = call.args.disk.used

DrivesCall == call.op = "check_removable_drives"

\* the volumes taken for removable whose query succeeded, and those of them
\* above the threshold, in enumeration order
Answering(p) == IsRemovable(call.args.system, p) /\ p.usage.ok
AboveThreshold(p) == p.usage.percent > 900
ListedVolumes == SelectSeq(call.args.partitions.list, Answering)
FullVolumes == SelectSeq(ListedVolumes, AboveThreshold)

VolumeLine(p) ==
    <<"Attention: Utilisation elevee du disque amovible (",
      ToString(p.usage.percent \div 10), ".", ToString(p.usage.percent % 10),
      "%) pour ", p.device>>

\* one line per volume above the threshold, joined by newlines
VolumeLines ==
    LET join[i \in 0..Len(FullVolumes)] ==
            IF i = 0 THEN <<>>
            ELSE IF i = 1 THEN VolumeLine(FullVolumes[1])
            ELSE join[i - 1] \o <<"\n">> \o VolumeLine(FullVolumes[i])
    IN  join[Len(FullVolumes)]

DrivesAsEnumerated ==
    /\ Len(result.drives) = Len(ListedVolumes)
    /\ \A i \in 1..Len(ListedVolumes) :
          /\ result.drives[i].device = ListedVolumes[i].device
          /\ result.drives[i].mountpoint = ListedVolumes[i].mountpoint
          /\ result.drives[i].percent = ListedVolumes[i].usage.percent
    /\ result.overflow = (Len(FullVolumes) > 0)
    /\ result.message = VolumeLines

\* C12 as stated: a removable volume whose query fails is left out of drives
\* and changes neither overflow nor message, the others are listed in
\* enumeration order; overflow iff a listed volume is above 90 percent, the
\* message having one line per such volume, in order, joined by newlines.
C12_DrivesListedAndAggregated == DrivesCall => DrivesAsEnumerated

\* C12 amended: the same, provided the enumeration of the volumes itself
\* succeeds; when it fails the record has overflow = true, an error message
\* and no drives.
C12_DrivesListedUnlessEnumerationFails ==
    DrivesCall =>
        /\ outcome = "returned"
        /\ IF call.args.partitions.ok THEN DrivesAsEnumerated
           ELSE /\ result.overflow
                /\ result.drives = <<>>
                /\ result.message[1] =
                      "Erreur lors de la verification des disques amovibles: "

\* a removable volume whose query fails, followed by one above the threshold
C12_Witness ==
    /\ DrivesCall
    /\ call.args.partitions.ok
    /\ Len(call.args.partitions.list) = 2
    /\ IsRemovable(call.args.system, call.args.partitions.list[1])
    /\ ~call.args.partitions.list[1].usage.ok
    /\ Answering(call.args.partitions.list[2])
    /\ AboveThreshold(call.args.partitions.list[2])
    /\ Len(result.drives) = 1
    /\ result.overflow
    /\ result.message = VolumeLine(call.args.partitions.list[2])

SimulationCall == call.op = "simulate_buffer_overflow"

\* the size is an int that fits an index
Allocatable ==
    /\ call.args.size.cls = "int"
    /\ ~MagLess(sys_maxsize_digits, call.args.size.mag) \/ call.args.size.neg

AllocationSucceeds == Allocatable /\ ~call.args.host.memory_error
OutOfMemory == Allocatable /\ call.args.host.memory_error

\* C13: when the allocation succeeds the record has overflow = false,
\* allocated_size = size, an allocation_time and the success message; when
\* the runtime signals out-of-memory it has overflow = true, the
\* out-of-memory message, which is not the message of any other fault, and
\* neither allocated_size nor allocation_time.
C13_AllocationOutcomes ==
    SimulationCall =>
        /\ outcome = "returned"
        /\ AllocationSucceeds =>
              /\ ~result.overflow
              /\ result.allocated_size = call.args.size
              /\ "allocation_time" \in DOMAIN result
              /\ result.message[1] = "Allocation reussie de "
        /\ OutOfMemory =>
              /\ result.overflow
              /\ result.message[1] =
                    "Depassement de memoire detecte: impossible d'allouer "
              /\ {"allocated_size", "allocation_time"} \cap DOMAIN result = {}
        /\ ~Allocatable =>
              /\ result.overflow
              /\ result.message[1] = "Erreur lors de la simulation: "
              /\ {"allocated_size", "allocation_time"} \cap DOMAIN result = {}

C13_Witness ==
    /\ SimulationCall
    /\ OutOfMemory
    /\ result.overflow
    /\ "allocation_time" \notin DOMAIN result

\* the input of the call has no length, is no number, or its query failed
FaultyCall ==
    \/ call.op \in {"check_string"} /\ ~call.args.input_str.sized
    \/ call.op \in {"check_character"} /\ ~call.args.char.sized
    \/ call.op \in {"check_array", "check_stack", "check_list"} /\ ~call.args.array.sized
    \/ call.op = "check_matrix" /\ ~MatrixCall
    \/ call.op = "check_number" /\ ~IsNumber(call.args.value)
    \/ call.op = "check_memory_usage" /\ ~call.args.memory.ok
    \/ call.op = "check_disk_usage" /\ ~call.args.disk.ok
    \/ call.op = "check_removable_drives" /\ ~call.args.partitions.ok
    \/ call.op = "simulate_buffer_overflow" /\ ~AllocationSucceeds

\* C14: no operation of the detector propagates a fault to its caller: a
\* fault while computing a length or querying the host yields a returned
\* record with overflow = true and an error message.
C14_NoFaultPropagates ==
    call.op # "none" =>
        /\ outcome = "returned"
        /\ FaultyCall => (result.overflow /\ result.message # <<>>)

\* C16: when only the column bound is exceeded the message is exactly the
\* column message, and when only the row bound is exceeded exactly the row
\* message.
C16_SingleBoundMessageExact ==
    MatrixCall =>
        /\ (RowCount <= call.args.max_rows /\ ColCount > call.args.max_cols)
              => result.message = ColsMessage
        /\ (RowCount > call.args.max_rows /\ ColCount <= call.args.max_cols)
              => result.message = RowsMessage

\* C17: in every returned record overflow = true implies a non-empty
\* message, and for every operation but simulate_buffer_overflow
\* overflow = false implies an empty message.
C17_MessageMatchesOverflow ==
    outcome = "returned" =>
        /\ result.overflow => result.message # <<>>
        /\ (~result.overflow /\ call.op # "simulate_buffer_overflow")
              => result.message = <<>>

\* two removable volumes above the threshold: overflow with a message
C17_Witness ==
    /\ DrivesCall
    /\ call.args.partitions.ok
    /\ Len(FullVolumes) = 2
    /\ result.overflow
    /\ result.message # <<>>

\* simulate_buffer_overflow returns a message with overflow = false
C17_SimulationWitness ==
    /\ SimulationCall
    /\ outcome = "returned"
    /\ ~result.overflow
    /\ result.message # <<>>

\* C15: the thresholds of the detector are those set at construction
\* (max_string_length = 255, the machine's integer and float limits,
\* memory_threshold = 90, disk_threshold = 90) after any sequence of handler
\* invocations and of the checks they make, check_string with an explicit
\* max_length included.
C15_ThresholdsUnchanged ==
    /\ detector = Detector_init
    /\ detector.max_string_length = 255
    /\ detector.memory_threshold = 90
    /\ detector.disk_threshold = 90
    /\ detector.max_int_value = sys_maxsize
    /\ detector.min_int_value = IntPred(NumNeg(sys_maxsize))
    /\ detector.max_float_value = sys_float_info_max
    /\ detector.min_float_value = NumNeg(sys_float_info_max)

\* test_string has called check_string with the explicit bound 2
C15_Witness ==
    /\ handler.name = "test_string"
    /\ call.op = "check_string"
    /\ call.args.max_length = Some(2)
    /\ result.max_allowed = 2
    /\ result.overflow
    /\ detector.max_string_length = 255

\* the step of a test handler: the sidebar selection stays as it is
HandlerStep == selected' = selected

\* the entries the step appends
AppendedEntries ==
    {results_text'[i] : i \in (Len(results_text) + 1)..Len(results_text')}

EndsWith(entry, text) ==
    /\ Len(entry) >= Len(text)
    /\ SubSeq(entry, Len(entry) - Len(text) + 1, Len(entry)) = text

\* C18: whenever a test handler is handed a record with a non-empty message,
\* an entry it appends to the results holds that message, after the
\* "[OVERFLOW DETECTE]" marker when the record has overflow = true.
C18_LogShowsMessage ==
    [][(HandlerStep /\ outcome' = "returned" /\ result'.message # <<>>) =>
          \E entry \in AppendedEntries :
              /\ EndsWith(entry, result'.message)
              /\ result'.overflow =>
                    EndsWith(entry, <<"[OVERFLOW DETECTE] ">> \o result'.message)]_vars

\* the fields a handler reads as integers
IntegerFields(name) ==
    CASE name = "test_string" -> {2}
      [] name = "test_integer" -> {1}
      [] name \in {"test_array", "test_list", "test_stack"} -> {1, 2}
      [] name = "test_matrix" -> {1, 2, 3, 4}
      [] name = "test_buffer_overflow" -> {1}
      [] OTHER -> {}

\* a numeric field of the handler run holds no number
Unparsable(h) ==
    \/ \E i \in IntegerFields(h.name) : ~ParseInt(h.inputs[i]).ok
    \/ h.name = "test_float" /\ ~ParseFloat(h.inputs[1]).ok

\* C19: each invocation of a test handler either appends to the end of the
\* results, leaving the earlier entries as they were, or shows an error
\* dialog, never both; when a numeric field cannot be parsed it shows the
\* dialog, calls no operation of the detector and leaves the results as
\* they were.
C19_AppendOrDialog ==
    [][HandlerStep =>
          /\ \/ /\ Len(results_text') > Len(results_text)
                /\ SubSeq(results_text', 1, Len(results_text)) = results_text
                /\ dialog' = <<>>
             \/ /\ results_text' = results_text
                /\ dialog' # <<>>
          /\ Unparsable(handler') =>
                /\ dialog' # <<>>
                /\ call' = NoCall
                /\ results_text' = results_text]_vars

\* test_array with an unparsable bound, run when the results hold an entry
C19_Witness ==
    /\ handler.name = "test_array"
    /\ ~ParseInt(handler.inputs[1]).ok
    /\ dialog # <<>>
    /\ call = NoCall
    /\ results_text # <<>>

\* the frame of a sidebar selection; the character/string frame before any
SelectedFrame ==
    CASE selected = "none" -> "character_string_frame"
      [] selected = "show_character_string_test" -> "character_string_frame"
      [] selected = "show_numbers_test" -> "numbers_frame"
      [] selected = "show_arrays_matrices_test" -> "arrays_matrices_frame"
      [] selected = "show_lists_stacks_test" -> "lists_stacks_frame"
      [] selected = "show_memory_test" -> "memory_frame"
      [] selected = "show_buffer_overflow_simulation" -> "buffer_overflow_frame"

\* C20: after construction and after any sequence of sidebar selections and
\* handler runs exactly one content frame is displayed, that of the latest
\* selection, or the character/string frame when none was made.
C20_OneFrameShown == packed = {SelectedFrame}

\* the memory frame was selected after another one, and a handler has run
C20_Witness ==
    /\ selected = "show_memory_test"
    /\ handler.name = "test_memory"
    /\ results_text # <<>>
    /\ packed = {"memory_frame"}

====
